---- MODULE Spec2Model ----
(***************************************************************************)
(* The cart service and the user service of instana-srk/ibm-instana.       *)
(*                                                                         *)
(* Four of the repository's cart programs are modelled, and its user       *)
(* service:                                                                *)
(*   "server"   src/cart/server.js                                         *)
(*   "part002a" src/unnamed/part_002, first program (lines 1-373)          *)
(*   "part002b" src/unnamed/part_002, second program (from line 375 on)    *)
(*   "part000"  src/unnamed/part_000                                       *)
(*   "user"     src/unnamed/part_003, last program (from line 739 on)      *)
(* The variable prog says which program runs; it never changes.  The cart  *)
(* programs keep their state in store and counter, the user service in     *)
(* users and mongoConnected.                                               *)
(*                                                                         *)
(* A request is a callback chain.  Each link of the chain is one action:   *)
(* the synchronous part of the handler, the resolution of the catalogue    *)
(* promise, the callback of the redis read, the callback of the redis      *)
(* write.  A redis command takes effect in the step of its callback.       *)
(*                                                                         *)
(* Prices, subtotals and totals are integer numbers of currency units; the *)
(* tax is the double that total * 0.1 yields.                              *)
(***************************************************************************)
EXTENDS Integers, Sequences, FiniteSets, TLC

VARIABLES prog, users, mongoConnected, store, counter, req, merge, sent

vars == <<prog, users, mongoConnected, store, counter, req, merge, sent>>

(***************************************************************************)
(* Bounds of the model                                                     *)
(***************************************************************************)
\* number of requests that reach the store for writing in one run
MaxSent == 3
\* number of merge steps of the mergeList harness
MaxMerge == 3

Keys == {"c1", "c2"}
Skus == {"A", "B", "SHIP"}
\* the :qty path parameter, as the characters of the string
QtyPositive == {<<"1">>, <<"2">>}
QtyZero == {<<"0">>}
QtyOdd == {<<"x">>, <<"-", "1">>, <<"2", "x">>}
\* the prices and stock levels the catalogue service answers with
Prices == {10, 12}
Stocks == {0, 5}

(***************************************************************************)
(* Values                                                                  *)
(***************************************************************************)
\* what redisClient.get yields for a missing key
Null == [null |-> TRUE]

\* JSON.stringify: the stored string is a value of another kind than the object
JSONstringify(v) == [json |-> v]

\* JSON.parse of a string written by JSON.stringify
JSONparse(s) == s.json

\* a response body that is a plain string
Text(s) == [text |-> s]

NaN == [nan |-> TRUE, n |-> 0]
Num(n) == [nan |-> FALSE, n |-> n]
isNaN(v) == v.nan

Digits == {"0", "1", "2", "3", "4", "5", "6", "7", "8", "9"}

DigitVal(c) ==
  CASE c = "0" -> 0 [] c = "1" -> 1 [] c = "2" -> 2 [] c = "3" -> 3
    [] c = "4" -> 4 [] c = "5" -> 5 [] c = "6" -> 6 [] c = "7" -> 7
    [] c = "8" -> 8 [] c = "9" -> 9

RECURSIVE ParseDigits(_, _, _)
\* the value of the longest prefix of digits of s from position i on
ParseDigits(s, i, acc) ==
  IF i > Len(s) \/ s[i] \notin Digits THEN acc
  ELSE ParseDigits(s, i + 1, 10 * acc + DigitVal(s[i]))

RECURSIVE SkipSpace(_, _)
SkipSpace(s, i) ==
  IF i <= Len(s) /\ s[i] = " " THEN SkipSpace(s, i + 1) ELSE i

\* parseInt(string): leading blanks, an optional sign, then the longest
\* prefix of decimal digits; NaN when there is no digit
parseInt(s) ==
  LET i == SkipSpace(s, 1)
      neg == i <= Len(s) /\ s[i] = "-"
      j == IF i <= Len(s) /\ s[i] \in {"-", "+"} THEN i + 1 ELSE i
  IN IF j > Len(s) \/ s[j] \notin Digits THEN NaN
     ELSE IF neg THEN Num(0 - ParseDigits(s, j, 0))
     ELSE Num(ParseDigits(s, j, 0))

(***************************************************************************)
(* Helpers of the cart programs                                            *)
(***************************************************************************)
\* the index of the first item of list with this sku, Len(list) + 1 if none
\* (the for loops of mergeList, update and shipping)
RECURSIVE FindSkuFrom(_, _, _)
FindSkuFrom(list, sku, i) ==
  IF i > Len(list) THEN i
  ELSE IF list[i].sku = sku THEN i
  ELSE FindSkuFrom(list, sku, i + 1)

FindSku(list, sku) == FindSkuFrom(list, sku, 1)

\* mergeList with the subtotal grown by the price of this add
mergeListFreshPrice(list, item, qty) ==
  LET i == FindSku(list, item.sku)
  IN IF i <= Len(list)
     THEN [list EXCEPT ![i] = [@ EXCEPT !.qty = list[i].qty + qty,
                                        !.subtotal = list[i].subtotal + qty * item.price]]
     ELSE Append(list, item)

\* mergeList with the merged item moved to the end of the list
mergeListMoveLast(list, item, qty) ==
  LET i == FindSku(list, item.sku)
  IN IF i <= Len(list)
     THEN Append(SubSeq(list, 1, i - 1) \o SubSeq(list, i + 1, Len(list)),
                 [list[i] EXCEPT !.qty = list[i].qty + qty,
                                 !.subtotal = (list[i].qty + qty) * list[i].price])
     ELSE Append(list, item)

\* mergeList of src/cart/server.js
mergeListServer(list, item, qty) ==
  LET i == FindSku(list, item.sku)
  IN IF i <= Len(list)
     THEN [list EXCEPT ![i] = [@ EXCEPT !.qty = list[i].qty + qty,
                                        !.subtotal = (list[i].qty + qty) * list[i].price]]
     ELSE Append(list, item)

\* mergeList of the first program of src/unnamed/part_002
mergeListPart002a(list, item, qty) ==
  LET i == FindSku(list, item.sku)
  IN IF i <= Len(list)
     THEN [list EXCEPT ![i] = [@ EXCEPT !.qty = list[i].qty + qty,
                                        !.subtotal = list[i].subtotal + qty * item.price]]
     ELSE Append(list, item)

mergeList(list, item, qty) ==
  IF prog = "part002a" THEN mergeListPart002a(list, item, qty)
  ELSE mergeListServer(list, item, qty)

RECURSIVE SumSubtotals(_, _)
SumSubtotals(items, i) ==
  IF i > Len(items) THEN 0 ELSE items[i].subtotal + SumSubtotals(items, i + 1)

RECURSIVE SumPrices(_, _)
SumPrices(items, i) ==
  IF i > Len(items) THEN 0 ELSE items[i].price + SumPrices(items, i + 1)

\* calcTotal summing the prices, not the subtotals
calcTotalPrices(items) == SumPrices(items, 1)

\* calcTotal: the sum of item.subtotal over the items
calcTotal(items) == SumSubtotals(items, 1)

(***************************************************************************)
(* Numbers that are not integers.  A JavaScript number is an IEEE 754       *)
(* double: a significand of at most 53 bits times a power of two.  Here a  *)
(* double is [m |-> bits, e |-> exponent]: the bits of the significand,    *)
(* lowest first, and the value is the significand times 2^e.  The          *)
(* significand is odd (its lowest and highest bits are 1), so that equal   *)
(* values are equal records; zero is the empty significand.  The totals    *)
(* and prices of the carts are integers far below 2^53, which doubles hold *)
(* exactly: they stay integers here.                                       *)
(***************************************************************************)
\* The operations on the bits are functions: a function is applied to
\* the value of its argument, so each step works on bits already computed.
\* the bits of the natural number n, lowest first
Bits[n \in Nat] == IF n = 0 THEN <<>> ELSE <<n % 2>> \o Bits[n \div 2]

\* the bits without the zeros above the highest 1
TrimHigh[m \in Seq({0, 1})] ==
  IF m = <<>> THEN <<>>
  ELSE IF m[Len(m)] = 0 THEN TrimHigh[SubSeq(m, 1, Len(m) - 1)]
  ELSE m

\* the double of significand m and exponent e, with the low zeros of m
\* moved into the exponent
Normal[m \in Seq({0, 1}), e \in Int] ==
  IF m = <<>> THEN [m |-> <<>>, e |-> 0]
  ELSE IF Head(m) = 0 THEN Normal[Tail(m), e + 1]
  ELSE [m |-> m, e |-> e]

\* the double that holds the natural number n (n < 2^31)
FromNat(n) == Normal[Bits[n], 0]

\* the bits of m * n + c
MulBits[m \in Seq({0, 1}), n \in Nat, c \in Nat] ==
  IF m = <<>> THEN Bits[c]
  ELSE LET v == Head(m) * n + c
       IN <<v % 2>> \o MulBits[Tail(m), n, v \div 2]

\* the bits of m + 1
Inc[m \in Seq({0, 1})] ==
  IF m = <<>> THEN <<1>>
  ELSE IF Head(m) = 0 THEN <<1>> \o Tail(m)
  ELSE <<0>> \o Inc[Tail(m)]

\* the double nearest to m * 2^e, ties to the even significand: the bits
\* below the highest 53 are dropped, and the result is one up when they
\* are more than half of the last bit kept, or half and that bit is 1
Round[m \in Seq({0, 1}), e \in Int] ==
  IF Len(m) <= 53 THEN Normal[m, e]
  ELSE LET drop == Len(m) - 53
           kept == SubSeq(m, drop + 1, Len(m))
           half == m[drop] = 1
           more == \E i \in 1..(drop - 1) : m[i] = 1
       IN Normal[IF half /\ (more \/ Head(kept) = 1) THEN Inc[kept] ELSE kept, e + drop]

\* n * d for an integer n >= 0 and a double d: the product, rounded once
Times(n, d) == Round[TrimHigh[MulBits[d.m, n, 0]], d.e]

\* the bits of the hexadecimal digits h, highest digit first
HexBits[h \in Seq(0..15)] ==
  IF h = <<>> THEN <<>>
  ELSE LET d == h[Len(h)]
       IN <<d % 2, (d \div 2) % 2, (d \div 4) % 2, d \div 8>>
            \o HexBits[SubSeq(h, 1, Len(h) - 1)]

\* the literal 0.1: the double 0x1999999999999A * 2^-56
Tenth == Normal[TrimHigh[HexBits[<<1, 9, 9, 9, 9, 9, 9, 9, 9, 9, 9, 9, 9, 10>>]], -56]

\* the literal 0.05: the double 0x1999999999999A * 2^-57
Twentieth == Normal[TrimHigh[HexBits[<<1, 9, 9, 9, 9, 9, 9, 9, 9, 9, 9, 9, 9, 10>>]], -57]

\* calcTax: total * 0.1, and total * 0.05 in the second program of
\* src/unnamed/part_002
calcTax(total) == Times(total, IF prog = "part002b" THEN Twentieth ELSE Tenth)

\* the item with the subtotal of one unit
NewItemUnit(sku, product, qty) ==
  [qty |-> qty, sku |-> sku, name |-> product.name, price |-> product.price,
   subtotal |-> product.price]

\* the item an add request builds from the product and the quantity
NewItem(sku, product, qty) ==
  [qty |-> qty, sku |-> sku, name |-> product.name, price |-> product.price,
   subtotal |-> qty * product.price]

\* the cart an add request starts from when the key is absent
EmptyCart == [total |-> 0, tax |-> FromNat(0), items |-> <<>>]


(***************************************************************************)
(* The catalogue                                                           *)
(***************************************************************************)
\* An outcome of getProduct is what the catalogue did (answer: "ok" a 200
\* answer, "non200" another answer, "error" a transport error), whether the
\* promise is rejected, and the product it resolves with.

\* getProduct of src/cart/server.js: a dummy that always resolves
getProductServer(sku) ==
  {[answer |-> "ok", rejected |-> FALSE,
    product |-> [sku |-> sku, name |-> <<"Product ", sku>>, price |-> 10, instock |-> 5]]}

\* the products the catalogue service may hold for a sku: the price of A
\* changes from one lookup to the next, the others run out of stock
Products(sku) ==
  IF sku = "A"
  THEN {[sku |-> sku, name |-> <<"Product ", sku>>, price |-> p, instock |-> 5] : p \in Prices}
  ELSE {[sku |-> sku, name |-> <<"Product ", sku>>, price |-> 10, instock |-> n] : n \in Stocks}

\* getProduct of the first program of src/unnamed/part_002: rejects on a
\* transport error, otherwise resolves with the parsed body
getProductPart002a(sku) ==
  {[answer |-> "error", rejected |-> TRUE, product |-> Null]}
    \cup {[answer |-> "ok", rejected |-> FALSE, product |-> p] : p \in Products(sku)}

\* getProduct of src/unnamed/part_000: rejects on a transport error and on
\* every answer whose status is not 200, otherwise resolves with the body
getProductPart000(sku) ==
  LET answers == {[err |-> TRUE, statusCode |-> 0, body |-> Null],
                  [err |-> FALSE, statusCode |-> 404, body |-> Null]}
                   \cup {[err |-> FALSE, statusCode |-> 200, body |-> p] : p \in Products(sku)}
  IN {[answer |-> IF a.err THEN "error" ELSE IF a.statusCode # 200 THEN "non200" ELSE "ok",
       rejected |-> (a.err \/ a.statusCode # 200),
       product |-> IF a.err \/ a.statusCode # 200 THEN Null ELSE a.body] : a \in answers}

\* getProduct of the second program of src/unnamed/part_002: rejects on a
\* transport error, resolves with null on every answer whose status is not
\* 200, otherwise resolves with the parsed body
getProductPart002b(sku) ==
  {[answer |-> "error", rejected |-> TRUE, product |-> Null],
   [answer |-> "non200", rejected |-> FALSE, product |-> Null]}
    \cup {[answer |-> "ok", rejected |-> FALSE, product |-> p] : p \in Products(sku)}

(***************************************************************************)
(* Requests                                                                *)
(***************************************************************************)
\* a request body of POST /shipping/:id as bodyParser.json() hands it over:
\* present holds the fields that are not undefined, isNull those of them
\* that are null.  The bodies with every field present and none null:
ShippingBodies ==
  {[present |-> {"distance", "cost", "location"}, isNull |-> {},
    distance |-> 10, cost |-> 2, location |-> "X"],
   [present |-> {"distance", "cost", "location"}, isNull |-> {},
    distance |-> 10, cost |-> 0, location |-> "Y"]}

\* the bodies that lack one field
ShippingBodiesMissing ==
  {[present |-> {"distance", "cost", "location"} \ {f}, isNull |-> {},
    distance |-> 10, cost |-> 2, location |-> "X"] :
     f \in {"distance", "cost", "location"}}

\* the bodies that hold null in the distance or in the location, as in
\* {"distance": null, "cost": 2, "location": "X"}; the handler never reads
\* the distance, and a body with a null location is sent back
ShippingBodiesNull ==
  {[present |-> {"distance", "cost", "location"}, isNull |-> {f},
    distance |-> 10, cost |-> 2, location |-> "X"] :
     f \in {"distance", "location"}}

ShippingRequests ==
  (Keys \X ShippingBodies) \cup ({"c1"} \X (ShippingBodiesMissing \cup ShippingBodiesNull))

NoShipping == [present |-> {}, isNull |-> {}, distance |-> 0, cost |-> 0, location |-> ""]

\* a request slot with no request in it
Idle ==
  [pc |-> "idle", op |-> "none", id |-> "", to |-> "", sku |-> "", qtyParam |-> <<>>,
   qty |-> 0, shipping |-> NoShipping, answer |-> "none", product |-> Null, cart |-> Null,
   status |-> 0, body |-> Null]

Slots == DOMAIN req

Free(r) == req[r].pc = "idle"

\* the requests that are sent: every cart and sku with the quantities that
\* pass the check, one cart and sku with the others
AddRequests ==
  (Keys \X Skus \X QtyPositive) \cup ({"c1"} \X {"A"} \X (QtyZero \cup QtyOdd))

UpdateRequests ==
  (Keys \X Skus \X (QtyZero \cup QtyPositive)) \cup ({"c1"} \X {"A"} \X QtyOdd)

\* the request r becomes rq
Begin(r, rq) == req' = [req EXCEPT ![r] = rq] /\ UNCHANGED sent

\* the request r becomes rq, a request that goes on to the store for writing:
\* no more than MaxSent of them are sent
BeginWrite(r, rq) ==
  /\ sent < MaxSent
  /\ req' = [req EXCEPT ![r] = rq]
  /\ sent' = sent + 1

\* the handler moves on to its next callback
Goto(r, pc, product, cart) ==
  req' = [req EXCEPT ![r] = [@ EXCEPT !.pc = pc, !.product = product, !.cart = cart]]

\* the request r, now rq, is answered
Reply(r, rq, status, body) ==
  req' = [req EXCEPT ![r] = [rq EXCEPT !.pc = "done", !.status = status, !.body = body]]

\* JSON.parse(data) throws a SyntaxError: the data is not the text of a JSON
\* value
Unparsable(data) == "json" \notin DOMAIN data

\* an exception is thrown in the callback of the redis client, outside every
\* try block and every promise: the callback ends there, and no line that
\* answers the request is reached, now or later
Throw(r) == req' = [req EXCEPT ![r] = [@ EXCEPT !.pc = "thrown"]]

\* res.status(status).send(body): the request is answered
Respond(r, status, body) ==
  req' = [req EXCEPT ![r] = [@ EXCEPT !.pc = "done", !.cart = Null,
                                      !.status = status, !.body = body]]

(***************************************************************************)
(* GET /cart/:id                                                           *)
(***************************************************************************)
GetStart(r, id) ==
  /\ Free(r)
  /\ Begin(r, [Idle EXCEPT !.pc = "get", !.op = "get", !.id = id])
  /\ UNCHANGED <<prog, users, mongoConnected, store, counter, merge>>

\* get answering an absent key with an empty cart, which it stores
GetReplyCreate(r) ==
  /\ req[r].op = "get" /\ req[r].pc = "get"
  /\ \E err \in BOOLEAN :
       IF err THEN Respond(r, 500, Text("err")) /\ UNCHANGED store
       ELSE IF store[req[r].id] = Null
       THEN /\ store' = [store EXCEPT ![req[r].id] = [json |-> [total |-> 0, items |-> <<>>]]]
            /\ Respond(r, 200, store'[req[r].id])
       ELSE Respond(r, 200, store[req[r].id]) /\ UNCHANGED store
  /\ UNCHANGED <<prog, users, mongoConnected, counter, merge, sent>>

GetReply(r) ==
  /\ req[r].op = "get" /\ req[r].pc = "get"
  /\ \E err \in BOOLEAN :
       IF err THEN Respond(r, 500, Text("err"))
       ELSE IF store[req[r].id] = Null THEN Respond(r, 404, Text("cart not found"))
       ELSE Respond(r, 200, store[req[r].id])
  /\ UNCHANGED <<prog, users, mongoConnected, store, counter, merge, sent>>

(***************************************************************************)
(* DELETE /cart/:id                                                        *)
(***************************************************************************)
DeleteStart(r, id) ==
  /\ Free(r)
  /\ BeginWrite(r, [Idle EXCEPT !.pc = "del", !.op = "delete", !.id = id])
  /\ UNCHANGED <<prog, users, mongoConnected, store, counter, merge>>

\* delete answering OK whatever redis removed
DeleteReplyAlwaysOK(r) ==
  /\ req[r].op = "delete" /\ req[r].pc = "del"
  /\ \E err \in BOOLEAN :
       IF err THEN Respond(r, 500, Text("err")) /\ UNCHANGED store
       ELSE /\ store' = [store EXCEPT ![req[r].id] = Null]
            /\ Respond(r, 200, Text("OK"))
  /\ UNCHANGED <<prog, users, mongoConnected, counter, merge, sent>>

\* redisClient.del answers with the number of keys removed
DeleteReply(r) ==
  /\ req[r].op = "delete" /\ req[r].pc = "del"
  /\ \E err \in BOOLEAN :
       IF err THEN Respond(r, 500, Text("err")) /\ UNCHANGED store
       ELSE LET data == IF store[req[r].id] = Null THEN 0 ELSE 1
            IN /\ store' = [store EXCEPT ![req[r].id] = Null]
               /\ IF data = 1 THEN Respond(r, 200, Text("OK"))
                  ELSE IF prog = "part000" THEN Respond(r, 200, Text("cart not found"))
                  ELSE Respond(r, 404, Text("cart not found"))
  /\ UNCHANGED <<prog, users, mongoConnected, counter, merge, sent>>

(***************************************************************************)
(* GET /rename/:from/:to                                                   *)
(***************************************************************************)
RenameStart(r, from, to) ==
  /\ Free(r)
  /\ BeginWrite(r, [Idle EXCEPT !.pc = "get", !.op = "rename", !.id = from, !.to = to])
  /\ UNCHANGED <<prog, users, mongoConnected, store, counter, merge>>

RenameGet(r) ==
  /\ req[r].op = "rename" /\ req[r].pc = "get"
  /\ \E err \in BOOLEAN :
       IF err THEN Respond(r, 500, Text("err"))
       ELSE IF store[req[r].id] = Null THEN Respond(r, 404, Text("cart not found"))
       ELSE IF Unparsable(store[req[r].id]) THEN Throw(r)
       ELSE Goto(r, "save", Null, JSONparse(store[req[r].id]))
  /\ UNCHANGED <<prog, users, mongoConnected, store, counter, merge, sent>>

\* saveCart(id, cart) settles: redisClient.set(id, JSON.stringify(cart))
saveCart(id, cart) == [store EXCEPT ![id] = JSONstringify(cart)]

\* rename keeping the items of the destination in front of the renamed ones
RenameSaveMerge(r) ==
  /\ req[r].op = "rename" /\ req[r].pc = "save"
  /\ \E err \in BOOLEAN :
       IF err THEN Respond(r, 500, Text("err")) /\ UNCHANGED store
       ELSE LET dest == store[req[r].to]
                cart == IF dest = Null \/ req[r].to = req[r].id THEN req[r].cart
                        ELSE [req[r].cart EXCEPT !.items = JSONparse(dest).items \o @]
            IN /\ store' = saveCart(req[r].to, cart)
               /\ Respond(r, 200, JSONstringify(cart))
  /\ UNCHANGED <<prog, users, mongoConnected, counter, merge, sent>>

RenameSave(r) ==
  /\ req[r].op = "rename" /\ req[r].pc = "save"
  /\ \E err \in BOOLEAN :
       IF err THEN Respond(r, 500, Text("err")) /\ UNCHANGED store
       ELSE /\ store' = saveCart(req[r].to, req[r].cart)
            /\ Respond(r, 200, JSONstringify(req[r].cart))
  /\ UNCHANGED <<prog, users, mongoConnected, counter, merge, sent>>


(***************************************************************************)
(* GET /add/:id/:sku/:qty                                                  *)
(***************************************************************************)
\* add with the quantity check of update: zero passes
AddStartZero(r, id, sku, qtyParam) ==
  /\ Free(r)
  /\ LET qty == parseInt(qtyParam)
         rq == [Idle EXCEPT !.op = "add", !.id = id, !.sku = sku, !.qtyParam = qtyParam]
     IN IF isNaN(qty)
        THEN Begin(r, [rq EXCEPT !.pc = "done", !.status = 400,
                                 !.body = Text("quantity must be a number")])
        ELSE IF qty.n < 0
        THEN Begin(r, [rq EXCEPT !.pc = "done", !.qty = qty.n, !.status = 400,
                                 !.body = Text("quantity has to be greater than zero")])
        ELSE BeginWrite(r, [rq EXCEPT !.pc = "catalogue", !.qty = qty.n])
  /\ UNCHANGED <<prog, users, mongoConnected, store, counter, merge>>

\* the synchronous part: the quantity check, then getProduct is called
AddStart(r, id, sku, qtyParam) ==
  /\ Free(r)
  /\ LET qty == parseInt(qtyParam)
         rq == [Idle EXCEPT !.op = "add", !.id = id, !.sku = sku, !.qtyParam = qtyParam]
     IN IF prog = "part000" /\ (isNaN(qty) \/ qty.n < 1)
        THEN Begin(r, [rq EXCEPT !.pc = "done", !.qty = qty.n, !.status = 400,
                                 !.body = Text("quantity must be a positive number")])
        ELSE IF isNaN(qty)
        THEN Begin(r, [rq EXCEPT !.pc = "done", !.status = 400,
                                 !.body = Text("quantity must be a number")])
        ELSE IF qty.n < 1
        THEN Begin(r, [rq EXCEPT !.pc = "done", !.qty = qty.n, !.status = 400,
                                 !.body = Text("quantity has to be greater than zero")])
        ELSE BeginWrite(r, [rq EXCEPT !.pc = "catalogue", !.qty = qty.n])
  /\ UNCHANGED <<prog, users, mongoConnected, store, counter, merge>>

\* the outcomes of the catalogue lookup of the running program
getProduct(sku) ==
  IF prog = "server" THEN getProductServer(sku)
  ELSE IF prog = "part002a" THEN getProductPart002a(sku)
  ELSE IF prog = "part002b" THEN getProductPart002b(sku)
  ELSE getProductPart000(sku)

\* add creating the cart while it waits for the catalogue
AddProductCreateFirst(r) ==
  /\ req[r].op = "add" /\ req[r].pc = "catalogue"
  /\ store' = IF store[req[r].id] = Null THEN saveCart(req[r].id, EmptyCart) ELSE store
  /\ \E o \in getProduct(req[r].sku) :
       LET rq == [req[r] EXCEPT !.answer = o.answer, !.product = o.product]
       IN IF o.rejected THEN Reply(r, rq, 500, Text("err"))
          ELSE IF o.product = Null THEN Reply(r, rq, 404, Text("product not found"))
          ELSE IF o.product.instock = 0 THEN Reply(r, rq, 404, Text("out of stock"))
          ELSE req' = [req EXCEPT ![r] = [rq EXCEPT !.pc = "get"]]
  /\ UNCHANGED <<prog, users, mongoConnected, counter, merge, sent>>

\* add without the stock check
AddProductAnyStock(r) ==
  /\ req[r].op = "add" /\ req[r].pc = "catalogue"
  /\ \E o \in getProduct(req[r].sku) :
       LET rq == [req[r] EXCEPT !.answer = o.answer, !.product = o.product]
       IN IF o.rejected THEN Reply(r, rq, 500, Text("err"))
          ELSE IF o.product = Null THEN Reply(r, rq, 404, Text("product not found"))
          ELSE req' = [req EXCEPT ![r] = [rq EXCEPT !.pc = "get"]]
  /\ UNCHANGED <<prog, users, mongoConnected, store, counter, merge, sent>>

\* the promise of getProduct settles: .then(product => ...) or .catch
AddProduct(r) ==
  /\ req[r].op = "add" /\ req[r].pc = "catalogue"
  /\ \E o \in getProduct(req[r].sku) :
       LET rq == [req[r] EXCEPT !.answer = o.answer, !.product = o.product]
       IN IF o.rejected THEN Reply(r, rq, 500, Text("err"))
          ELSE IF o.product = Null THEN Reply(r, rq, 404, Text("product not found"))
          ELSE IF o.product.instock = 0 THEN Reply(r, rq, 404, Text("out of stock"))
          ELSE req' = [req EXCEPT ![r] = [rq EXCEPT !.pc = "get"]]
  /\ UNCHANGED <<prog, users, mongoConnected, store, counter, merge, sent>>

\* the cart that add computes from the stored data (server.js, part_002)
AddCart(data, sku, product, qty) ==
  LET cart == IF data = Null THEN EmptyCart ELSE JSONparse(data)
      list == mergeList(cart.items, NewItem(sku, product, qty), qty)
      total == calcTotal(list)
  IN [cart EXCEPT !.items = list, !.total = total, !.tax = calcTax(total)]

\* the cart that add computes in src/unnamed/part_000
AddCartPart000(data, product, qty) ==
  LET cart == IF data = Null THEN [total |-> 0, items |-> <<>>] ELSE JSONparse(data)
      i == FindSku(cart.items, product.sku)
      list == IF i <= Len(cart.items)
              THEN [cart.items EXCEPT ![i] = [@ EXCEPT !.qty = cart.items[i].qty + qty]]
              ELSE Append(cart.items, [sku |-> product.sku, qty |-> qty])
  IN [cart EXCEPT !.items = list, !.total = cart.total + product.price * qty]

\* the callback of redisClient.get
AddGet(r) ==
  /\ req[r].op = "add" /\ req[r].pc = "get"
  /\ \E err \in BOOLEAN :
       IF err THEN Respond(r, 500, Text("err"))
       ELSE LET data == store[req[r].id]
            IN IF data # Null /\ Unparsable(data) THEN Throw(r)
               ELSE Goto(r, "save", req[r].product,
                         IF prog = "part000"
                         THEN AddCartPart000(data, req[r].product, req[r].qty)
                         ELSE AddCart(data, req[r].sku, req[r].product, req[r].qty))
  /\ UNCHANGED <<prog, users, mongoConnected, store, counter, merge, sent>>

\* add merging into the cart the store holds when it writes
AddSaveMergeAgain(r) ==
  /\ req[r].op = "add" /\ req[r].pc = "save"
  /\ \E err \in BOOLEAN :
       IF err THEN Respond(r, 500, Text("err")) /\ UNCHANGED <<store, counter>>
       ELSE LET cart == AddCart(store[req[r].id], req[r].sku, req[r].product, req[r].qty)
            IN /\ store' = saveCart(req[r].id, cart)
               /\ counter' = counter + req[r].qty
               /\ Respond(r, 200, JSONstringify(cart))
  /\ UNCHANGED <<prog, users, mongoConnected, merge, sent>>

\* add counting the units before the write has settled
AddSaveCountFirst(r) ==
  /\ req[r].op = "add" /\ req[r].pc = "save"
  /\ counter' = counter + req[r].qty
  /\ \E err \in BOOLEAN :
       IF err THEN Respond(r, 500, Text("err")) /\ UNCHANGED store
       ELSE /\ store' = saveCart(req[r].id, req[r].cart)
            /\ Respond(r, 200, JSONstringify(req[r].cart))
  /\ UNCHANGED <<prog, users, mongoConnected, merge, sent>>

\* the write settles: counter.inc(qty) and the answer, or the error
AddSave(r) ==
  /\ req[r].op = "add" /\ req[r].pc = "save"
  /\ \E err \in BOOLEAN :
       IF err THEN Respond(r, 500, Text("err")) /\ UNCHANGED <<store, counter>>
       ELSE /\ store' = saveCart(req[r].id, req[r].cart)
            /\ counter' = counter + req[r].qty
            /\ Respond(r, 200, JSONstringify(req[r].cart))
  /\ UNCHANGED <<prog, users, mongoConnected, merge, sent>>

(***************************************************************************)
(* GET /update/:id/:sku/:qty                                               *)
(***************************************************************************)
UpdateStart(r, id, sku, qtyParam) ==
  /\ Free(r)
  /\ LET qty == parseInt(qtyParam)
         rq == [Idle EXCEPT !.op = "update", !.id = id, !.sku = sku, !.qtyParam = qtyParam]
     IN IF isNaN(qty)
        THEN Begin(r, [rq EXCEPT !.pc = "done", !.status = 400,
                                 !.body = Text("quantity must be a number")])
        ELSE IF qty.n < 0
        THEN Begin(r, [rq EXCEPT !.pc = "done", !.qty = qty.n, !.status = 400,
                                 !.body = Text("negative quantity not allowed")])
        ELSE BeginWrite(r, [rq EXCEPT !.pc = "get", !.qty = qty.n])
  /\ UNCHANGED <<prog, users, mongoConnected, store, counter, merge>>

\* splice(0, 1): the first item is removed, whatever idx
SpliceHead(list, idx) == Tail(list)

\* splice(idx, 1)
Splice(list, idx) == SubSeq(list, 1, idx - 1) \o SubSeq(list, idx + 1, Len(list))

\* update setting the quantity to 0 and keeping the item
UpdateCartKeepItem(cart, idx, qty) ==
  LET list == [cart.items EXCEPT ![idx] =
                 [@ EXCEPT !.qty = qty, !.subtotal = cart.items[idx].price * qty]]
      total == calcTotal(list)
  IN [cart EXCEPT !.items = list, !.total = total, !.tax = calcTax(total)]

\* update keeping the subtotal the item had
UpdateCartKeepSubtotal(cart, idx, qty) ==
  LET list == IF qty = 0 THEN Splice(cart.items, idx)
              ELSE [cart.items EXCEPT ![idx] = [@ EXCEPT !.qty = qty]]
      total == calcTotal(list)
  IN [cart EXCEPT !.items = list, !.total = total, !.tax = calcTax(total)]

\* the cart that update computes once the item is found at idx
UpdateCart(cart, idx, qty) ==
  LET list == IF qty = 0 THEN Splice(cart.items, idx)
              ELSE [cart.items EXCEPT ![idx] =
                      [@ EXCEPT !.qty = qty, !.subtotal = cart.items[idx].price * qty]]
      total == calcTotal(list)
  IN [cart EXCEPT !.items = list, !.total = total, !.tax = calcTax(total)]

\* update taking a sku the cart does not hold for its first item
UpdateGetFirstItem(r) ==
  /\ req[r].op = "update" /\ req[r].pc = "get"
  /\ \E err \in BOOLEAN :
       IF err THEN Respond(r, 500, Text("err"))
       ELSE IF store[req[r].id] = Null THEN Respond(r, 404, Text("cart not found"))
       ELSE LET cart == JSONparse(store[req[r].id])
                idx == FindSku(cart.items, req[r].sku)
            IN IF cart.items = <<>> THEN Respond(r, 404, Text("not in cart"))
               ELSE Goto(r, "save", Null,
                         UpdateCart(cart, IF idx = Len(cart.items) + 1 THEN 1 ELSE idx,
                                    req[r].qty))
  /\ UNCHANGED <<prog, users, mongoConnected, store, counter, merge, sent>>

UpdateGet(r) ==
  /\ req[r].op = "update" /\ req[r].pc = "get"
  /\ \E err \in BOOLEAN :
       IF err THEN Respond(r, 500, Text("err"))
       ELSE IF store[req[r].id] = Null THEN Respond(r, 404, Text("cart not found"))
       ELSE IF Unparsable(store[req[r].id]) THEN Throw(r)
       ELSE LET cart == JSONparse(store[req[r].id])
                idx == FindSku(cart.items, req[r].sku)
            IN IF idx = Len(cart.items) + 1 THEN Respond(r, 404, Text("not in cart"))
               ELSE Goto(r, "save", Null, UpdateCart(cart, idx, req[r].qty))
  /\ UNCHANGED <<prog, users, mongoConnected, store, counter, merge, sent>>

\* update removing the key when no item is left
UpdateSaveDropEmpty(r) ==
  /\ req[r].op = "update" /\ req[r].pc = "save"
  /\ \E err \in BOOLEAN :
       IF err THEN Respond(r, 500, Text("err")) /\ UNCHANGED store
       ELSE /\ store' = IF req[r].cart.items = <<>> THEN [store EXCEPT ![req[r].id] = Null]
                        ELSE saveCart(req[r].id, req[r].cart)
            /\ Respond(r, 200, JSONstringify(req[r].cart))
  /\ UNCHANGED <<prog, users, mongoConnected, counter, merge, sent>>

UpdateSave(r) ==
  /\ req[r].op = "update" /\ req[r].pc = "save"
  /\ \E err \in BOOLEAN :
       IF err THEN Respond(r, 500, Text("err")) /\ UNCHANGED store
       ELSE /\ store' = saveCart(req[r].id, req[r].cart)
            /\ Respond(r, 200, JSONstringify(req[r].cart))
  /\ UNCHANGED <<prog, users, mongoConnected, counter, merge, sent>>

(***************************************************************************)
(* POST /shipping/:id                                                      *)
(***************************************************************************)
ShippingStart(r, id, shipping) ==
  /\ Free(r)
  /\ LET rq == [Idle EXCEPT !.op = "shipping", !.id = id, !.shipping = shipping]
         undefined(f) == f \notin shipping.present
     IN IF \/ undefined("distance")
           \/ undefined("cost")
           \/ undefined("location") \/ "location" \in shipping.isNull
        THEN Begin(r, [rq EXCEPT !.pc = "done", !.status = 400,
                                 !.body = Text("shipping data missing")])
        ELSE BeginWrite(r, [rq EXCEPT !.pc = "get"])
  /\ UNCHANGED <<prog, users, mongoConnected, store, counter, merge>>

\* shipping pushing its item whatever the cart holds
ShippingCartPush(cart, shipping) ==
  LET item == [qty |-> 1, sku |-> "SHIP", name |-> <<"shipping to ", shipping.location>>,
               price |-> shipping.cost, subtotal |-> shipping.cost]
      list == Append(cart.items, item)
      total == calcTotal(list)
  IN [cart EXCEPT !.items = list, !.total = total, !.tax = calcTax(total)]

\* the cart that shipping computes
ShippingCart(cart, shipping) ==
  LET item == [qty |-> 1, sku |-> "SHIP", name |-> <<"shipping to ", shipping.location>>,
               price |-> shipping.cost, subtotal |-> shipping.cost]
      idx == FindSku(cart.items, item.sku)
      list == IF idx = Len(cart.items) + 1 THEN Append(cart.items, item)
              ELSE IF prog = "part002a" THEN [cart.items EXCEPT ![idx] = item]
              ELSE [cart.items EXCEPT ![idx] = [@ EXCEPT !.subtotal = item.price]]
      total == calcTotal(list)
  IN [cart EXCEPT !.items = list, !.total = total, !.tax = calcTax(total)]

ShippingGet(r) ==
  /\ req[r].op = "shipping" /\ req[r].pc = "get"
  /\ \E err \in BOOLEAN :
       IF err THEN Respond(r, 500, Text("err"))
       ELSE IF store[req[r].id] = Null THEN Respond(r, 404, Text("cart not found"))
       ELSE IF Unparsable(store[req[r].id]) THEN Throw(r)
       ELSE Goto(r, "save", Null, ShippingCart(JSONparse(store[req[r].id]), req[r].shipping))
  /\ UNCHANGED <<prog, users, mongoConnected, store, counter, merge, sent>>

ShippingSave(r) ==
  /\ req[r].op = "shipping" /\ req[r].pc = "save"
  /\ \E err \in BOOLEAN :
       IF err THEN Respond(r, 500, Text("err")) /\ UNCHANGED store
       ELSE /\ store' = saveCart(req[r].id, req[r].cart)
            /\ Respond(r, 200, JSONstringify(req[r].cart))
  /\ UNCHANGED <<prog, users, mongoConnected, counter, merge, sent>>

(***************************************************************************)
(* The specification of src/cart/server.js, one request at a time          *)
(***************************************************************************)
NoMerge == [init |-> <<>>, list |-> <<>>, hist |-> <<>>]

InitProg(p, n) ==
  /\ prog = p
  /\ users = <<>>
  /\ mongoConnected = FALSE
  /\ store = [k \in Keys |-> Null]
  /\ counter = 0
  /\ req = [r \in 1..n |-> Idle]
  /\ merge = NoMerge
  /\ sent = 0

\* the answer has been sent: the slot takes the next request
Finish(r) ==
  /\ req[r].pc = "done"
  /\ req' = [req EXCEPT ![r] = Idle]
  /\ UNCHANGED <<prog, users, mongoConnected, store, counter, merge, sent>>

Init == InitProg("server", 1)

Next ==
  \/ \E r \in Slots, id \in Keys : GetStart(r, id)
  \/ \E r \in Slots : GetReply(r)
  \/ \E r \in Slots, id \in Keys : DeleteStart(r, id)
  \/ \E r \in Slots : DeleteReply(r)
  \/ \E r \in Slots, from \in Keys, to \in Keys : RenameStart(r, from, to)
  \/ \E r \in Slots : RenameGet(r)
  \/ \E r \in Slots : RenameSave(r)
  \/ \E r \in Slots, a \in AddRequests : AddStart(r, a[1], a[2], a[3])
  \/ \E r \in Slots : AddProduct(r)
  \/ \E r \in Slots : AddGet(r)
  \/ \E r \in Slots : AddSave(r)
  \/ \E r \in Slots, u \in UpdateRequests : UpdateStart(r, u[1], u[2], u[3])
  \/ \E r \in Slots : UpdateGet(r)
  \/ \E r \in Slots : UpdateSave(r)
  \/ \E r \in Slots, b \in ShippingRequests : ShippingStart(r, b[1], b[2])
  \/ \E r \in Slots : ShippingGet(r)
  \/ \E r \in Slots : ShippingSave(r)
  \/ \E r \in Slots : Finish(r)

Spec == Init /\ [][Next]_vars

(***************************************************************************)
(* The first program of src/unnamed/part_002 and src/unnamed/part_000,     *)
(* one request at a time.  part_000 has no update and no shipping route.   *)
(***************************************************************************)
InitPart002a == InitProg("part002a", 1)

SpecPart002a == InitPart002a /\ [][Next]_vars

InitPart000 == InitProg("part000", 1)

NextPart000 ==
  \/ \E r \in Slots, id \in Keys : GetStart(r, id)
  \/ \E r \in Slots : GetReply(r)
  \/ \E r \in Slots, id \in Keys : DeleteStart(r, id)
  \/ \E r \in Slots : DeleteReply(r)
  \/ \E r \in Slots, from \in Keys, to \in Keys : RenameStart(r, from, to)
  \/ \E r \in Slots : RenameGet(r)
  \/ \E r \in Slots : RenameSave(r)
  \/ \E r \in Slots, a \in AddRequests : AddStart(r, a[1], a[2], a[3])
  \/ \E r \in Slots : AddProduct(r)
  \/ \E r \in Slots : AddGet(r)
  \/ \E r \in Slots : AddSave(r)
  \/ \E r \in Slots : Finish(r)

SpecPart000 == InitPart000 /\ [][NextPart000]_vars

(***************************************************************************)
(* src/cart/server.js with two requests in flight: the callbacks of the    *)
(* two requests interleave in any order.  The requests are addressed to    *)
(* one cart, which a rename copies to the other key.                       *)
(***************************************************************************)
InitConc == InitProg("server", 2)

ConcSkus == {"A", "SHIP"}

NextConc ==
  \/ \E r \in Slots : GetStart(r, "c1")
  \/ \E r \in Slots : GetReply(r)
  \/ \E r \in Slots : DeleteStart(r, "c1")
  \/ \E r \in Slots : DeleteReply(r)
  \/ \E r \in Slots : RenameStart(r, "c1", "c2")
  \/ \E r \in Slots : RenameGet(r)
  \/ \E r \in Slots : RenameSave(r)
  \/ \E r \in Slots, sku \in ConcSkus : AddStart(r, "c1", sku, <<"1">>)
  \/ \E r \in Slots : AddProduct(r)
  \/ \E r \in Slots : AddGet(r)
  \/ \E r \in Slots : AddSave(r)
  \/ \E r \in Slots, sku \in ConcSkus, q \in {<<"0">>, <<"2">>} : UpdateStart(r, "c1", sku, q)
  \/ \E r \in Slots : UpdateGet(r)
  \/ \E r \in Slots : UpdateSave(r)
  \/ \E r \in Slots, b \in ShippingBodies : ShippingStart(r, "c1", b)
  \/ \E r \in Slots : ShippingGet(r)
  \/ \E r \in Slots : ShippingSave(r)
  \/ \E r \in Slots : Finish(r)

SpecConc == InitConc /\ [][NextConc]_vars

\* the first program of src/unnamed/part_002 with two requests in flight:
\* its catalogue call can fail and can report a product out of stock
InitConcPart002a == InitProg("part002a", 2)

SpecConcPart002a == InitConcPart002a /\ [][NextConc]_vars

(***************************************************************************)
(* The second program of src/unnamed/part_002 (from line 375 on), one      *)
(* request at a time: its add, update and shipping routes.  Every route    *)
(* first tests redisConnected, a flag that the connect and error events of *)
(* the redis client set: a request finds it true or false.  Shipping is    *)
(* kept in the field cart.shipping, not as an item.  Add and update differ *)
(* from server.js in the check of redisConnected, in getProduct and in the *)
(* rate of calcTax.                                                        *)
(***************************************************************************)
AddStartPart002b(r, id, sku, qtyParam, redisConnected) ==
  /\ Free(r)
  /\ LET qty == parseInt(qtyParam)
         rq == [Idle EXCEPT !.op = "add", !.id = id, !.sku = sku, !.qtyParam = qtyParam]
     IN IF ~redisConnected
        THEN Begin(r, [rq EXCEPT !.pc = "done", !.status = 500,
                                 !.body = Text("Redis is not connected")])
        ELSE IF isNaN(qty) \/ qty.n < 1
        THEN Begin(r, [rq EXCEPT !.pc = "done", !.status = 400,
                                 !.body = Text("Quantity must be a number greater than zero")])
        ELSE BeginWrite(r, [rq EXCEPT !.pc = "catalogue", !.qty = qty.n])
  /\ UNCHANGED <<prog, users, mongoConnected, store, counter, merge>>

UpdateStartPart002b(r, id, sku, qtyParam, redisConnected) ==
  /\ Free(r)
  /\ LET qty == parseInt(qtyParam)
         rq == [Idle EXCEPT !.op = "update", !.id = id, !.sku = sku, !.qtyParam = qtyParam]
     IN IF ~redisConnected
        THEN Begin(r, [rq EXCEPT !.pc = "done", !.status = 500,
                                 !.body = Text("Redis is not connected")])
        ELSE IF isNaN(qty) \/ qty.n < 0
        THEN Begin(r, [rq EXCEPT !.pc = "done", !.status = 400,
                                 !.body = Text("Quantity must be a non-negative number")])
        ELSE BeginWrite(r, [rq EXCEPT !.pc = "get", !.qty = qty.n])
  /\ UNCHANGED <<prog, users, mongoConnected, store, counter, merge>>

\* !shipping.distance || !shipping.cost || !shipping.location: a field that
\* is undefined, null, 0 or the empty string is missing
ShippingStartPart002b(r, id, shipping, redisConnected) ==
  /\ Free(r)
  /\ LET rq == [Idle EXCEPT !.op = "shipping", !.id = id, !.shipping = shipping]
         falsy(f) == \/ f \notin shipping.present
                     \/ f \in shipping.isNull
                     \/ shipping[f] = (IF f = "location" THEN "" ELSE 0)
     IN IF ~redisConnected
        THEN Begin(r, [rq EXCEPT !.pc = "done", !.status = 500,
                                 !.body = Text("Redis is not connected")])
        ELSE IF falsy("distance") \/ falsy("cost") \/ falsy("location")
        THEN Begin(r, [rq EXCEPT !.pc = "done", !.status = 400,
                                 !.body = Text("Missing shipping data")])
        ELSE BeginWrite(r, [rq EXCEPT !.pc = "get"])
  /\ UNCHANGED <<prog, users, mongoConnected, store, counter, merge>>

\* the cart that shipping computes: the first submission becomes
\* cart.shipping, a later one is added to its cost and distance, and the
\* cost that cart.shipping then holds is added to the total
ShippingCartPart002b(cart, shipping) ==
  LET body == [distance |-> shipping.distance, cost |-> shipping.cost,
               location |-> shipping.location]
      ship == IF "shipping" \notin DOMAIN cart THEN body
              ELSE [cart.shipping EXCEPT !.cost = @ + shipping.cost,
                                         !.distance = @ + shipping.distance]
  IN [f \in DOMAIN cart \cup {"shipping"} |->
        IF f = "shipping" THEN ship
        ELSE IF f = "total" THEN cart.total + ship.cost
        ELSE cart[f]]

ShippingGetPart002b(r) ==
  /\ req[r].op = "shipping" /\ req[r].pc = "get"
  /\ \E err \in BOOLEAN :
       IF err THEN Respond(r, 500, Text("err"))
       ELSE IF store[req[r].id] = Null THEN Respond(r, 404, Text("Cart not found"))
       ELSE IF Unparsable(store[req[r].id]) THEN Throw(r)
       ELSE Goto(r, "save", Null,
                 ShippingCartPart002b(JSONparse(store[req[r].id]), req[r].shipping))
  /\ UNCHANGED <<prog, users, mongoConnected, store, counter, merge, sent>>

InitPart002b == InitProg("part002b", 1)

NextPart002b ==
  \/ \E r \in Slots, a \in AddRequests, c \in BOOLEAN :
       AddStartPart002b(r, a[1], a[2], a[3], c)
  \/ \E r \in Slots : AddProduct(r)
  \/ \E r \in Slots : AddGet(r)
  \/ \E r \in Slots : AddSave(r)
  \/ \E r \in Slots, u \in UpdateRequests, c \in BOOLEAN :
       UpdateStartPart002b(r, u[1], u[2], u[3], c)
  \/ \E r \in Slots : UpdateGet(r)
  \/ \E r \in Slots : UpdateSave(r)
  \/ \E r \in Slots, b \in ShippingRequests, c \in BOOLEAN :
       ShippingStartPart002b(r, b[1], b[2], c)
  \/ \E r \in Slots : ShippingGetPart002b(r)
  \/ \E r \in Slots : ShippingSave(r)
  \/ \E r \in Slots : Finish(r)

SpecPart002b == InitPart002b /\ [][NextPart002b]_vars

(***************************************************************************)
(* The user service, src/unnamed/part_003 from line 739 on: its register   *)
(* route, with two requests in flight.  The handler is an async function:  *)
(* it runs up to an await, and goes on when the awaited call of the mongo  *)
(* driver has settled; the handlers of other requests run in between.  The *)
(* users collection is the sequence of its documents in insertion order.   *)
(* The program creates no index on it.                                     *)
(***************************************************************************)
UserNames == {"u1", "u2"}

\* a request body of POST /register as bodyParser.json() hands it over;
\* present holds the fields that are not undefined
RegisterBodies ==
  {[present |-> {"name", "password", "email"}, name |-> n, password |-> p, email |-> "e"] :
     n \in UserNames, p \in {"p", "q"}}

\* the bodies that lack one field, or hold the empty string in it
RegisterBodiesMissing ==
  {[present |-> {"name", "password", "email"} \ {f}, name |-> "u1", password |-> "p",
    email |-> "e"] : f \in {"name", "password", "email"}}
    \cup {[present |-> {"name", "password", "email"}, name |-> "u1", password |-> "",
           email |-> "e"]}

\* mongoConnect: MongoClient.connect has resolved
mongoConnect ==
  /\ ~mongoConnected
  /\ mongoConnected' = TRUE
  /\ UNCHANGED <<prog, users, store, counter, req, merge, sent>>

\* usersCollection.findOne({ name: name }): the first document of that
\* name, or null
findOne(name) ==
  IF \E i \in 1..Len(users) : users[i].name = name
  THEN users[CHOOSE i \in 1..Len(users) :
               /\ users[i].name = name
               /\ \A j \in 1..(i - 1) : users[j].name # name]
  ELSE Null

\* checkMongoConnection, then the handler up to its first await
RegisterStart(r, body) ==
  /\ Free(r)
  /\ LET rq == [pc |-> "findOne", op |-> "register", reqBody |-> body,
                status |-> 0, body |-> Null]
         falsy(f) == f \notin body.present \/ body[f] = ""
     IN IF ~mongoConnected
        THEN Begin(r, [rq EXCEPT !.pc = "done", !.status = 500,
                                 !.body = Text("Database not available")])
        ELSE IF falsy("name") \/ falsy("password") \/ falsy("email")
        THEN Begin(r, [rq EXCEPT !.pc = "done", !.status = 400,
                                 !.body = Text("Insufficient data")])
        ELSE BeginWrite(r, rq)
  /\ UNCHANGED <<prog, users, mongoConnected, store, counter, merge>>

\* await usersCollection.findOne has settled
RegisterFindOne(r) ==
  /\ req[r].op = "register" /\ req[r].pc = "findOne"
  /\ \E err \in BOOLEAN :
       IF err THEN Reply(r, req[r], 500, Text("err"))
       ELSE IF findOne(req[r].reqBody.name) # Null
       THEN Reply(r, req[r], 400, Text("Name already exists"))
       ELSE req' = [req EXCEPT ![r] = [@ EXCEPT !.pc = "insertOne"]]
  /\ UNCHANGED <<prog, users, mongoConnected, store, counter, merge, sent>>

\* await usersCollection.insertOne has settled
RegisterInsertOne(r) ==
  /\ req[r].op = "register" /\ req[r].pc = "insertOne"
  /\ \E err \in BOOLEAN :
       IF err THEN Reply(r, req[r], 500, Text("err")) /\ UNCHANGED users
       ELSE /\ users' = Append(users, [name |-> req[r].reqBody.name,
                                       password |-> req[r].reqBody.password,
                                       email |-> req[r].reqBody.email])
            /\ Reply(r, req[r], 200, Text("OK"))
  /\ UNCHANGED <<prog, mongoConnected, store, counter, merge, sent>>

InitUser == InitProg("user", 2)

NextUser ==
  \/ mongoConnect
  \/ \E r \in Slots, b \in RegisterBodies \cup RegisterBodiesMissing : RegisterStart(r, b)
  \/ \E r \in Slots : RegisterFindOne(r)
  \/ \E r \in Slots : RegisterInsertOne(r)
  \/ \E r \in Slots : Finish(r)

SpecUser == InitUser /\ [][NextUser]_vars

(***************************************************************************)
(* src/cart/server.js on a store that holds, under c1, a value the program *)
(* did not write and that is not JSON text: redis is shared, and every     *)
(* client of it can set any key to any string.  One request at a time.     *)
(* The callbacks of redis and of the catalogue are run by the event loop   *)
(* of node once the answer is there: a callback that can run does run.     *)
(***************************************************************************)
Corrupt == [raw |-> "{"]

InitCorrupt ==
  /\ prog = "server"
  /\ users = <<>>
  /\ mongoConnected = FALSE
  /\ store = [k \in Keys |-> IF k = "c1" THEN Corrupt ELSE Null]
  /\ counter = 0
  /\ req = [r \in 1..1 |-> Idle]
  /\ merge = NoMerge
  /\ sent = 0

\* the callbacks of the requests in flight
Callbacks ==
  \E r \in Slots :
    \/ GetReply(r) \/ DeleteReply(r)
    \/ RenameGet(r) \/ RenameSave(r)
    \/ AddProduct(r) \/ AddGet(r) \/ AddSave(r)
    \/ UpdateGet(r) \/ UpdateSave(r)
    \/ ShippingGet(r) \/ ShippingSave(r)

SpecCorrupt == InitCorrupt /\ [][NextConc]_vars /\ WF_vars(Callbacks)

(***************************************************************************)
(* mergeList of src/cart/server.js as a function: a list the program can   *)
(* hold is drawn, and add's merge step is applied to it MaxMerge times     *)
(* with products whose price and name change from one step to the next.    *)
(* merge.init is the list drawn, merge.list the list now, merge.hist the   *)
(* merges applied.                                                         *)
(***************************************************************************)
\* what the catalogue answers in the harness: the price and the name vary
MergeProducts(sku) ==
  {[sku |-> sku, name |-> <<"Product ", sku>>, price |-> 10, instock |-> 5],
   [sku |-> sku, name |-> <<"Renamed ", sku>>, price |-> 12, instock |-> 5]}

MergeItems ==
  {NewItem(sku, p, q) : sku \in Skus, p \in UNION {MergeProducts(k) : k \in Skus}, q \in {1, 2}}

MergeLists ==
  {<<>>} \cup {<<i>> : i \in {m \in MergeItems : m.name[2] = m.sku}}
    \cup {<<i, j>> : i \in {m \in MergeItems : m.name[2] = m.sku /\ m.qty = 1},
                     j \in {m \in MergeItems : m.name[2] = m.sku /\ m.qty = 2 /\ m.price = 10}}

InitMerge ==
  /\ prog = "server"
  /\ users = <<>>
  /\ mongoConnected = FALSE
  /\ store = [k \in Keys |-> Null]
  /\ counter = 0
  /\ req = [r \in 1..1 |-> Idle]
  /\ sent = 0
  /\ \E l \in MergeLists :
       /\ \A i, j \in 1..Len(l) : i # j => l[i].sku # l[j].sku
       /\ merge = [init |-> l, list |-> l, hist |-> <<>>]

\* lines 191-199 of the add handler: the item is built and merged
MergeStep(sku, product, qty) ==
  /\ Len(merge.hist) < MaxMerge
  /\ merge' = [merge EXCEPT
                 !.list = mergeList(merge.list, NewItem(sku, product, qty), qty),
                 !.hist = Append(merge.hist, [sku |-> sku, qty |-> qty,
                                              price |-> product.price, name |-> product.name])]
  /\ UNCHANGED <<prog, users, mongoConnected, store, counter, req, sent>>

NextMerge ==
  \E sku \in {"A", "SHIP"}, qty \in {1, 2} : \E product \in MergeProducts(sku) :
    MergeStep(sku, product, qty)

SpecMerge == InitMerge /\ [][NextMerge]_vars

(***************************************************************************)
(* Properties                                                              *)
(***************************************************************************)
\* the cart stored under k
CartAt(k) == store[k].json

RECURSIVE SubtotalSum(_)
SubtotalSum(items) ==
  IF items = <<>> THEN 0 ELSE Head(items).subtotal + SubtotalSum(Tail(items))

\* the positions of list that hold the sku
At(list, sku) == {i \in 1..Len(list) : list[i].sku = sku}

\* r is answered in this step
Answered(r) == req[r].pc \notin {"idle", "done"} /\ req'[r].pc = "done"

\* C1: in src/cart/server.js the total of every stored cart is the sum of the
\* subtotals of the items the cart holds, after every add, update, shipping
TotalIsSumOfSubtotals ==
  \A k \in Keys :
    store[k] # Null => CartAt(k).total = SubtotalSum(CartAt(k).items)

\* an update has succeeded on a cart that holds a shipping line and more
TotalWitness ==
  /\ req[1].op = "update" /\ req[1].pc = "done" /\ req[1].status = 200
  /\ req[1].qty = 2
  /\ At(CartAt(req[1].id).items, "SHIP") # {}
  /\ Len(CartAt(req[1].id).items) >= 2

RECURSIVE HistQty(_)
HistQty(hist) == IF hist = <<>> THEN 0 ELSE Head(hist).qty + HistQty(Tail(hist))

\* the merges of the harness that name the sku
MergesOf(sku) ==
  LET Names(h) == h.sku = sku IN SelectSeq(merge.hist, Names)

\* C2: after consecutive adds of one sku the list holds exactly one item of
\* the sku, its qty is the sum of the quantities, its name and price are the
\* ones stored first and its subtotal is qty times that price, whatever
\* prices the later adds came with
MergedItemKeepsFirstPrice ==
  \A sku \in Skus :
    LET adds == MergesOf(sku)
        was == At(merge.init, sku)
        first == IF was = {} THEN [qty |-> 0, price |-> adds[1].price, name |-> adds[1].name]
                 ELSE LET it == merge.init[CHOOSE i \in was : TRUE]
                      IN [qty |-> it.qty, price |-> it.price, name |-> it.name]
    IN adds # <<>> =>
         /\ Cardinality(At(merge.list, sku)) = 1
         /\ LET it == merge.list[CHOOSE i \in At(merge.list, sku) : TRUE]
            IN /\ it.qty = first.qty + HistQty(adds)
               /\ it.price = first.price
               /\ it.name = first.name
               /\ it.subtotal = it.qty * first.price

\* three adds of a sku the list did not hold, the later ones at another price
MergedItemWitness ==
  \E sku \in Skus :
    /\ At(merge.init, sku) = {}
    /\ merge.init # <<>>
    /\ Len(MergesOf(sku)) = 3
    /\ MergesOf(sku)[1].price # MergesOf(sku)[2].price
    /\ MergesOf(sku)[1].price # MergesOf(sku)[3].price

\* C3: after a rename from a key to another key has answered 200, the source
\* key is absent from the store
RenameRemovesSource ==
  \A r \in Slots :
    (/\ req[r].op = "rename" /\ req[r].pc = "done" /\ req[r].status = 200
     /\ req[r].id # req[r].to)
      => store[req[r].id] = Null

\* C4: a rename that answers 200 leaves under the destination the very value
\* stored under the source, whatever the destination held, and touches no
\* other key; a rename of an absent source answers 404 (500 when redis
\* fails) and leaves the store as it was
RenameCopiesVerbatim ==
  [][\A r \in Slots :
       (req[r].op = "rename" /\ Answered(r)) =>
         LET from == req[r].id
             to == req[r].to
         IN /\ req'[r].status = 200 =>
                 /\ store[from] # Null
                 /\ store'[to] = store[from]
                 /\ req'[r].body = store[from]
                 /\ \A k \in Keys \ {to} : store'[k] = store[k]
            /\ req'[r].status # 200 => store' = store
            /\ store[from] = Null =>
                 /\ req'[r].status \in {404, 500}
                 /\ req'[r].status = 404 <=> req'[r].body = Text("cart not found")
                 /\ req'[r].status = 500 <=> req'[r].body = Text("err")]_vars

\* a rename has answered 200 after three requests that added three units, and
\* the renamed cart holds one unit: the other add had filled the destination
RenameWitness ==
  /\ req[1].op = "rename" /\ req[1].pc = "done" /\ req[1].status = 200
  /\ req[1].id # req[1].to
  /\ sent = 3 /\ counter = 3
  /\ store[req[1].to] = store[req[1].id]
  /\ Len(CartAt(req[1].to).items) = 1
  /\ CartAt(req[1].to).items[1].qty = 1

\* C5: a delete answers OK only for a key that was present, and removes it;
\* for an absent key it answers 404 cart not found (500 when redis fails)
\* and leaves the store as it was
DeleteOnceThenNotFound ==
  [][\A r \in Slots :
       (req[r].op = "delete" /\ Answered(r)) =>
         LET id == req[r].id
         IN /\ req'[r].status \in {200, 404, 500}
            /\ req'[r].status = 200 =>
                 /\ store[id] # Null
                 /\ req'[r].body = Text("OK")
                 /\ store' = [store EXCEPT ![id] = Null]
            /\ req'[r].status = 404 =>
                 /\ store[id] = Null
                 /\ req'[r].body = Text("cart not found")
            /\ req'[r].status # 200 => store' = store
            /\ store[id] = Null => req'[r].body # Text("OK")]_vars

\* a delete has answered 404 after a cart was added and deleted
DeleteWitness ==
  /\ req[1].op = "delete" /\ req[1].pc = "done" /\ req[1].status = 404
  /\ sent = 3 /\ counter > 0
  /\ \A k \in Keys : store[k] = Null

\* the :qty parameters sent that are not a number, zero, or negative
NotPositive == {<<"x">>, <<"0">>, <<"-", "1">>}

OutOfStockLeavesStore ==
  [][\A r \in Slots :
       (/\ req[r].op = "add" /\ req[r].pc = "catalogue" /\ req'[r].pc # "catalogue"
        /\ req'[r].product # Null /\ req'[r].product.instock = 0) =>
         /\ req'[r].pc = "done"
         /\ req'[r].status = 404
         /\ req'[r].body = Text("out of stock")
         /\ store' = store
         /\ counter' = counter]_vars

\* an add on a stored cart has been answered out of stock
OutOfStockWitness ==
  /\ req[1].op = "add" /\ req[1].pc = "done" /\ req[1].status = 404
  /\ req[1].product # Null /\ req[1].product.instock = 0
  /\ store[req[1].id] # Null

\* C8: in src/unnamed/part_000 an add whose product the catalogue answers
\* with a status other than 200 is answered 404 product not found, and an add
\* whose catalogue call fails in transport is answered 500
UnknownProductIsNotFound ==
  \A r \in Slots :
    (req[r].op = "add" /\ req[r].pc = "done") =>
      /\ req[r].answer = "non200" =>
           req[r].status = 404 /\ req[r].body = Text("product not found")
      /\ req[r].answer = "error" => req[r].status = 500

\* C9: an add that answers 200 on an absent key stores a cart of exactly one
\* item {sku, qty, price of the catalogue, subtotal = price * qty} with
\* total = price * qty and tax = 10% of the total; every other request that
\* finds its key absent is answered 404 (500 when redis fails) and leaves the
\* store as it was
AddCreatesCart ==
  [][\A r \in Slots :
       /\ (req[r].op = "add" /\ req[r].pc = "save" /\ Answered(r)
           /\ req'[r].status = 200 /\ store[req[r].id] = Null) =>
            LET p == req[r].product.price
                q == req[r].qty
                cart == [total |-> p * q, tax |-> FromNat((p * q) \div 10),
                         items |-> <<[qty |-> q, sku |-> req[r].sku,
                                      name |-> req[r].product.name,
                                      price |-> p, subtotal |-> p * q]>>]
            IN /\ q >= 1
               /\ store' = [store EXCEPT ![req[r].id] = [json |-> cart]]
               /\ req'[r].body = [json |-> cart]
       /\ (/\ req[r].op \in {"get", "delete", "rename", "update", "shipping"}
           /\ req[r].pc \in {"get", "del"}
           /\ store[req[r].id] = Null
           /\ req'[r] # req[r]) =>
            /\ req'[r].pc = "done"
            /\ req'[r].status \in {404, 500}
            /\ store' = store]_vars

\* the first request of a run, an add of two units, has created the cart
AddCreatesWitness ==
  /\ req[1].op = "add" /\ req[1].pc = "done" /\ req[1].status = 200
  /\ sent = 1 /\ counter = 2
  /\ Len(CartAt(req[1].id).items) = 1

\* C10: add leaves the items in place: when the cart holds the sku, every
\* item keeps its position and the others are unchanged; when it does not,
\* the new item is appended after the items the cart held; the cart stored is
\* the cart so computed
AddKeepsOrder ==
  [][\A r \in Slots :
       /\ (req[r].op = "add" /\ req[r].pc = "get" /\ req'[r].pc = "save") =>
            LET old == IF store[req[r].id] = Null THEN <<>> ELSE CartAt(req[r].id).items
                new == req'[r].cart.items
            IN IF At(old, req[r].sku) # {}
               THEN /\ Len(new) = Len(old)
                    /\ \A i \in 1..Len(old) :
                         /\ new[i].sku = old[i].sku
                         /\ old[i].sku # req[r].sku => new[i] = old[i]
               ELSE /\ Len(new) = Len(old) + 1
                    /\ SubSeq(new, 1, Len(old)) = old
                    /\ new[Len(new)].sku = req[r].sku
       /\ (req[r].op = "add" /\ req[r].pc = "save" /\ Answered(r) /\ req'[r].status = 200) =>
            store'[req[r].id].json.items = req[r].cart.items]_vars

\* an add has merged into the first of two items
AddKeepsOrderWitness ==
  /\ req[1].op = "add" /\ req[1].pc = "done" /\ req[1].status = 200
  /\ Len(CartAt(req[1].id).items) = 2
  /\ CartAt(req[1].id).items[1].sku = req[1].sku
  /\ CartAt(req[1].id).items[1].qty > req[1].qty

\* the first position of list that holds the sku
FirstAt(list, sku) == CHOOSE i \in At(list, sku) : \A j \in At(list, sku) : i <= j

\* C11: an update of a sku the cart holds to a quantity above 0 sets the
\* item's qty to it and its subtotal to the stored price times it, leaves the
\* item's price, name and sku and every other item as they were, and the cart
\* stored and answered is the cart so computed
UpdateSetsQuantity ==
  [][\A r \in Slots :
       /\ (/\ req[r].op = "update" /\ req[r].pc = "get" /\ req'[r].pc = "save"
           /\ req[r].qty > 0) =>
            LET old == CartAt(req[r].id).items
                new == req'[r].cart.items
                idx == FirstAt(old, req[r].sku)
            IN /\ Len(new) = Len(old)
               /\ new[idx].qty = req[r].qty
               /\ new[idx].subtotal = old[idx].price * req[r].qty
               /\ new[idx].price = old[idx].price
               /\ new[idx].name = old[idx].name
               /\ new[idx].sku = old[idx].sku
               /\ \A i \in 1..Len(old) : i # idx => new[i] = old[i]
       /\ (/\ req[r].op = "update" /\ req[r].pc = "save" /\ Answered(r)
           /\ req'[r].status = 200) =>
            /\ store' = [store EXCEPT ![req[r].id] = [json |-> req[r].cart]]
            /\ req'[r].body = [json |-> req[r].cart]]_vars

\* an update has set the second of two items from one unit to two
UpdateWitness ==
  /\ req[1].op = "update" /\ req[1].pc = "done" /\ req[1].status = 200
  /\ req[1].qty = 2 /\ sent = 3 /\ counter = 2
  /\ Len(CartAt(req[1].id).items) = 2
  /\ CartAt(req[1].id).items[2].sku = req[1].sku
  /\ CartAt(req[1].id).items[2].qty = 2
  /\ CartAt(req[1].id).items[2].subtotal = 20
  /\ CartAt(req[1].id).items[1].qty = 1

\* the cart update(sku, 0) leaves when it finds the cart as given
Removed(cart, sku) == UpdateCart(cart, FindSku(cart.items, sku), 0)

\* C12: when an add of a sku S has been stored on a cart that existed and
\* did not hold S, update(S, 0) on the cart stored restores the cart as it
\* was before the add: the same items in the same order, the same total and
\* tax; the update request computes that cart from the cart it reads and
\* stores it
AddThenRemoveRestores ==
  [][\A r \in Slots :
       /\ (/\ req[r].op = "add" /\ req[r].pc = "save" /\ Answered(r)
           /\ req'[r].status = 200
           /\ store[req[r].id] # Null
           /\ At(CartAt(req[r].id).items, req[r].sku) = {}) =>
            /\ At(store'[req[r].id].json.items, req[r].sku) # {}
            /\ Removed(store'[req[r].id].json, req[r].sku) = CartAt(req[r].id)
       /\ (/\ req[r].op = "update" /\ req[r].pc = "get" /\ req'[r].pc = "save"
           /\ req[r].qty = 0) =>
            req'[r].cart = Removed(CartAt(req[r].id), req[r].sku)
       /\ (/\ req[r].op = "update" /\ req[r].pc = "save" /\ Answered(r)
           /\ req'[r].status = 200 /\ req[r].qty = 0) =>
            store' = [store EXCEPT ![req[r].id] = [json |-> req[r].cart]]]_vars

\* an add of two units to a cart of one item, then an update of the sku
\* added to 0, have left the cart of one item
AddThenRemoveWitness ==
  /\ req[1].op = "update" /\ req[1].pc = "done" /\ req[1].status = 200
  /\ req[1].qty = 0 /\ sent = 3 /\ counter = 3
  /\ Len(CartAt(req[1].id).items) = 1
  /\ CartAt(req[1].id).items[1].sku # req[1].sku
  /\ CartAt(req[1].id).items[1].qty = 1
  /\ CartAt(req[1].id).total = 10

EmptyCartStaysPresent ==
  [][/\ \A r \in Slots :
          /\ (/\ req[r].op = "update" /\ req[r].pc = "save" /\ Answered(r)
              /\ req'[r].status = 200 /\ req[r].qty = 0
              /\ Len(CartAt(req[r].id).items) = 1) =>
               /\ store' = [store EXCEPT ![req[r].id] =
                                 [json |-> [total |-> 0, tax |-> FromNat(0), items |-> <<>>]]]
               /\ req'[r].body = store'[req[r].id]
          /\ (/\ req[r].op = "get" /\ req[r].pc = "get" /\ req'[r] # req[r]
              /\ store[req[r].id] # Null) =>
               /\ req'[r].pc = "done"
               /\ req'[r].status \in {200, 500}
               /\ req'[r].status = 200 => req'[r].body = store[req[r].id]
     /\ \A k \in Keys :
          (store[k] # Null /\ store'[k] = Null) =>
            \E r \in Slots :
              /\ req[r].op = "delete" /\ req[r].id = k
              /\ Answered(r) /\ req'[r].status = 200]_vars

\* a get has answered 200 with the empty cart that an update to 0 left
EmptyCartWitness ==
  /\ req[1].op = "get" /\ req[1].pc = "done" /\ req[1].status = 200
  /\ req[1].body = [json |-> [total |-> 0, tax |-> FromNat(0), items |-> <<>>]]
  /\ store[req[1].id] = req[1].body
  /\ counter > 0

\* C15: the skus of the items of every stored cart are pairwise distinct,
\* SHIP included, whatever requests were sent and however the callbacks of
\* two requests in flight interleave
SkusDistinct ==
  \A k \in Keys :
    store[k] # Null =>
      \A i, j \in 1..Len(CartAt(k).items) :
        i # j => CartAt(k).items[i].sku # CartAt(k).items[j].sku

\* two shipping requests have both read the cart before either wrote: the
\* line stored is wholly the one of the second body, which no two requests
\* in sequence leave
SkusDistinctWitness ==
  /\ \A r \in {1, 2} : req[r].op = "shipping" /\ req[r].pc = "done" /\ req[r].status = 200
  /\ req[1].shipping # req[2].shipping
  /\ sent = 3
  /\ Len(CartAt("c1").items) = 2
  /\ CartAt("c1").items[2] =
       [qty |-> 1, sku |-> "SHIP", name |-> <<"shipping to ", "Y">>, price |-> 0, subtotal |-> 0]

\* C16: in src/cart/server.js every item of every stored cart has
\* subtotal = price * qty, the SHIP line included, after shipping was
\* submitted more than once and after an add or update naming SHIP
SubtotalIsPriceTimesQty ==
  \A k \in Keys :
    store[k] # Null =>
      \A i \in 1..Len(CartAt(k).items) :
        CartAt(k).items[i].subtotal = CartAt(k).items[i].price * CartAt(k).items[i].qty

\* C17: the qty of every item of every stored cart is an integer that is at
\* least 1
QtyAtLeastOne ==
  \A k \in Keys :
    store[k] # Null =>
      \A i \in 1..Len(CartAt(k).items) :
        CartAt(k).items[i].qty \in Nat \ {0}

\* an update to 0 has removed one of two items while the cart keeps an item
\* that two adds merged
QtyWitness ==
  /\ req[1].op = "update" /\ req[1].pc = "done" /\ req[1].status = 200
  /\ req[1].qty = 0 /\ req[1].qtyParam = <<"0">>
  /\ sent = 3
  /\ Len(CartAt(req[1].id).items) = 1
  /\ CartAt(req[1].id).items[1].sku # "SHIP"
  /\ CartAt(req[1].id).items[1].qty = 2

\* the item is not the shipping line
NotShip(it) == it.sku # "SHIP"

\* C19: in src/cart/server.js a shipping request that succeeds on a cart
\* which holds the shipping line of an earlier shipping request leaves
\* exactly one SHIP item, whose name, price and subtotal are those of this
\* request, and a total that counts this request's cost only
ShippingReplacesWholeItem ==
  [][\A r \in Slots :
       (/\ req[r].op = "shipping" /\ req[r].pc = "save" /\ Answered(r)
        /\ req'[r].status = 200
        /\ store[req[r].id] # Null
        /\ \E i \in At(CartAt(req[r].id).items, "SHIP") :
             CartAt(req[r].id).items[i].name[1] = "shipping to ") =>
         LET new == store'[req[r].id].json
             ships == At(new.items, "SHIP")
         IN /\ Cardinality(ships) = 1
            /\ \A i \in ships :
                 /\ new.items[i].name = <<"shipping to ", req[r].shipping.location>>
                 /\ new.items[i].price = req[r].shipping.cost
                 /\ new.items[i].subtotal = req[r].shipping.cost
            /\ new.total = SubtotalSum(SelectSeq(new.items, NotShip)) + req[r].shipping.cost]_vars

\* the body lacks a field or holds null in one
Missing(shipping) ==
  \E f \in {"distance", "cost", "location"} :
    f \notin shipping.present \/ f \in shipping.isNull

\* C18: a shipping request is answered 400 in its first step, with the
\* store neither read nor written, exactly when one of distance, cost and
\* location is undefined or null; a body whose cost is 0 and whose other
\* fields are present goes on to the cart
ShippingRejectsMissing ==
  [][\A r \in Slots :
       (req[r].pc = "idle" /\ req'[r].op = "shipping") =>
         /\ Missing(req'[r].shipping) <=> (req'[r].pc = "done" /\ req'[r].status = 400)
         /\ Missing(req'[r].shipping) => store' = store /\ sent' = sent
         /\ ~Missing(req'[r].shipping) => req'[r].pc = "get"]_vars

\* r is an add, update or shipping request that has been answered 200
Wrote(r) ==
  /\ req[r].op \in {"add", "update", "shipping"}
  /\ req[r].pc = "done" /\ req[r].status = 200

\* C20: in src/cart/server.js, after every successful add, update and
\* shipping request the tax of the stored cart is a tenth of its total:
\* 10 * tax == total, as JavaScript computes and compares it
TaxIsTenthOfTotal ==
  \A r \in Slots :
    Wrote(r) => Times(10, CartAt(req[r].id).tax) = FromNat(CartAt(req[r].id).total)

\* C21: items_added never decreases; it changes only in the step in which
\* the write of an add settles without error, and there it grows by the qty
\* of that add, the request being answered 200; every other step, an add
\* answered 400, 404 or 500 and every step of the other requests included,
\* leaves it as it was
CounterCountsAdds ==
  [][/\ counter' >= counter
     /\ counter' # counter =>
          \E r \in Slots :
            /\ req[r].op = "add" /\ req[r].pc = "save" /\ Answered(r)
            /\ req'[r].status = 200
            /\ store' = [store EXCEPT ![req[r].id] = [json |-> req[r].cart]]
            /\ counter' = counter + req[r].qty
     /\ \A r \in Slots :
          /\ (req[r].op = "add" /\ req[r].pc = "save" /\ Answered(r)
              /\ req'[r].status = 200) =>
               counter' = counter + req[r].qty
          /\ (req'[r].pc = "done" /\ req[r].pc # "done"
              /\ (req'[r].op # "add" \/ req'[r].status # 200)) =>
               counter' = counter]_vars

\* an add of one unit has been answered 500 after an add of two units was
\* stored: two units are counted
CounterWitness ==
  /\ req[1].op = "add" /\ req[1].pc = "done" /\ req[1].status = 500
  /\ req[1].qty = 1
  /\ sent = 2 /\ counter = 2
  /\ store[req[1].id] # Null

\* C22: the last writer wins.  An add computes its cart from the value it
\* read, keeps it while the other request takes its steps, and its write
\* stores that cart over whatever the store holds by then and is answered
\* 200 with it; two adds on one cart can so read, read, write, write, and
\* the witness is the execution in which the units of the first are lost
LastWriterWins ==
  [][\A r \in Slots :
       /\ (req[r].op = "add" /\ req[r].pc = "get" /\ req'[r].pc = "save") =>
            req'[r].cart = AddCart(store[req[r].id], req[r].sku, req[r].product, req[r].qty)
       /\ (req[r].pc = "save" /\ req'[r].pc = "save") => req'[r].cart = req[r].cart
       /\ (req[r].op = "add" /\ req[r].pc = "save" /\ Answered(r)
           /\ req'[r].status = 200) =>
            /\ store' = [store EXCEPT ![req[r].id] = [json |-> req[r].cart]]
            /\ req'[r].body = [json |-> req[r].cart]]_vars

\* two adds of one unit of A to the absent cart c1 were both answered 200
\* and two units are counted, but the cart stored holds one unit
LostUpdateWitness ==
  /\ \A r \in {1, 2} :
       /\ req[r].op = "add" /\ req[r].pc = "done" /\ req[r].status = 200
       /\ req[r].id = "c1" /\ req[r].sku = "A" /\ req[r].qty = 1
  /\ sent = 2 /\ counter = 2
  /\ Len(CartAt("c1").items) = 1
  /\ CartAt("c1").items[1].qty = 1
  /\ CartAt("c1").total = 10

\* C23: an add leaves the store and items_added as they are in the step
\* that sends the catalogue lookup and in the step in which the lookup
\* settles, whatever the other request in flight does in between; it goes
\* on to read the store only when the lookup has resolved with a product
\* that is in stock, and is answered 500 or 404 otherwise
CatalogueComesFirst ==
  [][\A r \in Slots :
       /\ (/\ req'[r].op = "add" /\ req'[r] # req[r]
           /\ req[r].pc \in {"idle", "catalogue"}) =>
            /\ store' = store
            /\ counter' = counter
            /\ req'[r].pc \in {"catalogue", "get", "done"}
            /\ req'[r].pc = "get" =>
                 /\ req[r].pc = "catalogue"
                 /\ req'[r].answer = "ok"
                 /\ req'[r].product # Null /\ req'[r].product.instock # 0
            /\ (req[r].pc = "catalogue" /\ req'[r].answer # "ok") =>
                 req'[r].pc = "done" /\ req'[r].status = 500
       /\ (req[r].op = "add" /\ req[r].pc \in {"get", "save"}) =>
            /\ req[r].answer = "ok"
            /\ req[r].product # Null /\ req[r].product.instock # 0
       /\ (req[r].op = "add" /\ store' # store /\ req'[r] # req[r]) =>
            req[r].pc = "save"]_vars

\* the catalogue lookup of one add has failed while the other add in flight
\* has stored its cart: the store holds the cart of the other add
CatalogueWitness ==
  /\ req[1].op = "add" /\ req[1].pc = "done" /\ req[1].status = 500
  /\ req[1].answer = "error"
  /\ req[2].op = "add" /\ req[2].pc = "done" /\ req[2].status = 200
  /\ req[1].id = req[2].id
  /\ sent = 2
  /\ store[req[2].id] = req[2].body

\* C24: with one request at a time, the body of an add, update or shipping
\* answered 200 is the value stored under its id, and stays so until the
\* next request; a get leaves the store as it is, answers 200 with the
\* value stored, and answers 404 only when the key is absent (an absent key
\* is answered 404, or 500 when redis fails)
BodyIsStoredCart ==
  [][\A r \in Slots :
       /\ (/\ req[r].op \in {"add", "update", "shipping"}
           /\ req[r].pc = "save" /\ Answered(r) /\ req'[r].status = 200) =>
            /\ req'[r].body = store'[req[r].id]
            /\ req'[r].body = [json |-> req[r].cart]
       /\ Wrote(r) => req[r].body = store[req[r].id]
       /\ (req[r].op = "get" /\ req[r].pc = "get" /\ req'[r] # req[r]) =>
            /\ store' = store
            /\ req'[r].pc = "done"
            /\ req'[r].status \in {200, 404, 500}
            /\ req'[r].status = 200 => req'[r].body = store[req[r].id]
            /\ req'[r].status = 404 => store[req[r].id] = Null
            /\ store[req[r].id] = Null => req'[r].status # 200
       /\ (req'[r].op = "get" /\ req'[r] # req[r]) =>
            store' = store /\ counter' = counter]_vars

\* a get has answered with the cart that two adds and a shipping left
BodyWitness ==
  /\ req[1].op = "get" /\ req[1].pc = "done" /\ req[1].status = 200
  /\ req[1].body = store[req[1].id]
  /\ sent = 3 /\ counter = 3
  /\ Len(CartAt(req[1].id).items) = 2
  /\ CartAt(req[1].id).items[2].sku = "SHIP"
  /\ CartAt(req[1].id).total = 32

\* C25: a get of a key whose stored value does not decode as a cart is
\* answered 500
CorruptGetIsAnswered500 ==
  \A r \in Slots :
    (/\ req[r].op = "get" /\ req[r].pc = "done"
     /\ store[req[r].id] # Null /\ Unparsable(store[req[r].id])) =>
      req[r].status = 500

\* C29: every add, update, shipping and rename request that is in flight
\* is answered in the end, whatever path its handler takes
EveryRequestIsAnswered ==
  \A r \in {1, 2} :
    (/\ r \in Slots
     /\ req[r].op \in {"add", "update", "shipping", "rename"}
     /\ req[r].pc \notin {"idle", "done"})
      ~> (r \in Slots /\ req[r].pc = "done")

\* C27: when the write of an add has merged the request into an item the
\* stored cart already held, the stored item's subtotal is its stored price
\* times its new qty
MergedSubtotalUsesStoredPrice ==
  [][\A r \in Slots :
       (/\ req[r].op = "add" /\ req[r].pc = "save" /\ Answered(r)
        /\ req'[r].status = 200
        /\ store[req[r].id] # Null
        /\ FindSku(CartAt(req[r].id).items, req[r].sku) <= Len(CartAt(req[r].id).items)) =>
         LET i == FindSku(CartAt(req[r].id).items, req[r].sku)
             item == store'[req[r].id].json.items[i]
         IN /\ item.qty = CartAt(req[r].id).items[i].qty + req[r].qty
            /\ item.price = CartAt(req[r].id).items[i].price
            /\ item.subtotal = item.price * item.qty]_vars

\* C28: a key that was absent is present after a step only when the step
\* is the write of an add on that key or of a rename to that key
OnlyAddAndRenameCreate ==
  [][\A k \in Keys :
       (store[k] = Null /\ store'[k] # Null) =>
         \E r \in Slots :
           /\ req[r].pc = "save" /\ Answered(r)
           /\ \/ req[r].op = "add" /\ req[r].id = k
              \/ req[r].op = "rename" /\ req[r].to = k]_vars

\* C26: in the second program of src/unnamed/part_002 the total of every
\* stored cart is the sum of the subtotals of its items plus the cost that
\* cart.shipping holds, 0 when the cart has no shipping
TotalIsSubtotalsPlusShipping ==
  \A k \in Keys :
    store[k] # Null =>
      CartAt(k).total =
        SubtotalSum(CartAt(k).items)
          + (IF "shipping" \in DOMAIN CartAt(k) THEN CartAt(k).shipping.cost ELSE 0)

\* C30: no two documents of the users collection have the same name
NamesDistinct ==
  \A i, j \in 1..Len(users) : i # j => users[i].name # users[j].name

====
